---- MODULE Spec2Model ----
(***************************************************************************)
(* A model of pogr_log_rs (src/src/lib.rs): the POGRLogger sink, its       *)
(* envelope construction, the detached dispatch tasks it spawns, and the   *)
(* global registration done by init_logger.                                *)
(*                                                                         *)
(* Text is modelled as a sequence of symbols.  A symbol is either a JSON   *)
(* punctuation character, a quote, a backslash, a blank, or a chunk of     *)
(* letters or digits that stands for those characters in a row.  The       *)
(* chunks are chosen so that no concatenation of chunks spells another.    *)
(***************************************************************************)
EXTENDS Integers, Sequences, FiniteSets, TLC

VARIABLES sink, tasks, facade_logger, max_level, LOGGER, initPc, last,
          env, built, arrived, messages

vars == <<sink, tasks, facade_logger, max_level, LOGGER, initPc, last,
          env, built, arrived, messages>>

(***************************************************************************)
(* Bounds.                                                                 *)
(***************************************************************************)
MaxTasks == 2
MaxMsgLen == 3

(***************************************************************************)
(* Symbols and JSON values (serde_json::Value).                            *)
(***************************************************************************)
LBRACE == "{"
RBRACE == "}"
LBRACK == "["
RBRACK == "]"
COLON == ":"
COMMA == ","
QUOTE == "\""
BSLASH == "\\"
SPACE == " "

DigitChunks == {"1", "42", "123", "401"}
WordTrue == "true"
WordFalse == "false"
WordNull == "null"

JNull == [t |-> "null"]
JBool(b) == [t |-> "bool", b |-> b]
JNum(d) == [t |-> "num", s |-> d]
JStr(s) == [t |-> "str", s |-> s]
JArr(a) == [t |-> "arr", a |-> a]
JObj(o) == [t |-> "obj", o |-> o]

EmptyMap == [k \in {} |-> JNull]

\* One-chunk text, e.g. Str("service") is the string "service".
Str(w) == <<w>>

\* Value's IndexMut<&str> on an object: insert the key or overwrite its value.
IndexSet(obj, key, value) ==
    JObj([k \in DOMAIN obj.o \cup {key} |-> IF k = key THEN value ELSE obj.o[k]])

(***************************************************************************)
(* serde_json::from_str: a recursive-descent parser over the symbols.      *)
(* A result is [ok |-> FALSE] or [ok |-> TRUE, v |-> value, next |-> i].   *)
(***************************************************************************)
Fail == [ok |-> FALSE]

RECURSIVE SkipWs(_, _)
SkipWs(s, i) ==
    IF i <= Len(s) /\ s[i] = SPACE THEN SkipWs(s, i + 1) ELSE i

\* The body of a string literal, from position i (after the opening quote).
RECURSIVE ParseStrBody(_, _, _)
ParseStrBody(s, i, acc) ==
    IF i > Len(s) THEN Fail
    ELSE IF s[i] = QUOTE THEN [ok |-> TRUE, v |-> acc, next |-> i + 1]
    ELSE IF s[i] = BSLASH
         THEN IF i + 1 <= Len(s) /\ s[i + 1] \in {QUOTE, BSLASH}
              THEN ParseStrBody(s, i + 2, Append(acc, s[i + 1]))
              ELSE Fail
    ELSE ParseStrBody(s, i + 1, Append(acc, s[i]))

RECURSIVE ParseDigits(_, _, _)
ParseDigits(s, i, acc) ==
    IF i <= Len(s) /\ s[i] \in DigitChunks
    THEN ParseDigits(s, i + 1, Append(acc, s[i]))
    ELSE [ok |-> TRUE, v |-> JNum(acc), next |-> i]

RECURSIVE ParseValue(_, _)
RECURSIVE ParseMembers(_, _, _)
RECURSIVE ParseElements(_, _, _)

\* Object members from position i (at a key); acc is the map so far.  A
\* repeated key overwrites (Map::insert).
ParseMembers(s, i, acc) ==
    IF i > Len(s) \/ s[i] # QUOTE THEN Fail
    ELSE LET key == ParseStrBody(s, i + 1, <<>>)
         IN IF ~key.ok THEN Fail
            ELSE LET c == SkipWs(s, key.next)
                 IN IF c > Len(s) \/ s[c] # COLON THEN Fail
                    ELSE LET val == ParseValue(s, c + 1)
                         IN IF ~val.ok THEN Fail
                            ELSE LET map == IndexSet(JObj(acc), key.v, val.v).o
                                     e == SkipWs(s, val.next)
                                 IN IF e > Len(s) THEN Fail
                                    ELSE IF s[e] = RBRACE
                                         THEN [ok |-> TRUE, v |-> JObj(map), next |-> e + 1]
                                    ELSE IF s[e] = COMMA
                                         THEN ParseMembers(s, SkipWs(s, e + 1), map)
                                    ELSE Fail

\* Array elements from position i (at a value); acc is the list so far.
ParseElements(s, i, acc) ==
    LET val == ParseValue(s, i)
    IN IF ~val.ok THEN Fail
       ELSE LET list == Append(acc, val.v)
                e == SkipWs(s, val.next)
            IN IF e > Len(s) THEN Fail
               ELSE IF s[e] = RBRACK
                    THEN [ok |-> TRUE, v |-> JArr(list), next |-> e + 1]
               ELSE IF s[e] = COMMA THEN ParseElements(s, e + 1, list)
               ELSE Fail

ParseValue(s, i0) ==
    LET i == SkipWs(s, i0)
    IN IF i > Len(s) THEN Fail
       ELSE IF s[i] = WordNull THEN [ok |-> TRUE, v |-> JNull, next |-> i + 1]
       ELSE IF s[i] = WordTrue THEN [ok |-> TRUE, v |-> JBool(TRUE), next |-> i + 1]
       ELSE IF s[i] = WordFalse THEN [ok |-> TRUE, v |-> JBool(FALSE), next |-> i + 1]
       ELSE IF s[i] \in DigitChunks THEN ParseDigits(s, i, <<>>)
       ELSE IF s[i] = QUOTE
            THEN LET b == ParseStrBody(s, i + 1, <<>>)
                 IN IF b.ok THEN [ok |-> TRUE, v |-> JStr(b.v), next |-> b.next]
                    ELSE Fail
       ELSE IF s[i] = LBRACK
            THEN LET j == SkipWs(s, i + 1)
                 IN IF j <= Len(s) /\ s[j] = RBRACK
                    THEN [ok |-> TRUE, v |-> JArr(<<>>), next |-> j + 1]
                    ELSE ParseElements(s, j, <<>>)
       ELSE IF s[i] = LBRACE
            THEN LET j == SkipWs(s, i + 1)
                 IN IF j <= Len(s) /\ s[j] = RBRACE
                    THEN [ok |-> TRUE, v |-> JObj(EmptyMap), next |-> j + 1]
                    ELSE ParseMembers(s, j, EmptyMap)
       ELSE Fail

\* The whole text must be one value, followed by blanks only.
from_str(s) ==
    LET r == ParseValue(s, 1)
    IN IF ~r.ok THEN Fail
       ELSE IF SkipWs(s, r.next) = Len(s) + 1 THEN [ok |-> TRUE, v |-> r.v]
       ELSE Fail

(***************************************************************************)
(* Value::to_string: compact JSON text.  An object's keys come out in the  *)
(* order of its map (BTreeMap: byte order of the keys).                    *)
(***************************************************************************)
\* The symbols that occur in keys, in byte order.
SymbolOrder ==
    <<SPACE, QUOTE, COMMA, "1", "123", "401", "42", COLON, LBRACK, BSLASH, RBRACK,
      "a", "code", "data", "env", "environment", "log", "service", "severity",
      "tags", "type", "user_id", LBRACE, RBRACE>>

Rank(c) ==
    IF \E i \in DOMAIN SymbolOrder : SymbolOrder[i] = c
    THEN CHOOSE i \in DOMAIN SymbolOrder : SymbolOrder[i] = c
    ELSE Len(SymbolOrder) + 1

RECURSIVE KeyLeq(_, _)
KeyLeq(a, b) ==
    IF a = <<>> THEN TRUE
    ELSE IF b = <<>> THEN FALSE
    ELSE IF Rank(Head(a)) < Rank(Head(b)) THEN TRUE
    ELSE IF Rank(Head(a)) > Rank(Head(b)) THEN FALSE
    ELSE KeyLeq(Tail(a), Tail(b))

RECURSIVE KeySeq(_)
KeySeq(keys) ==
    IF keys = {} THEN <<>>
    ELSE LET k == CHOOSE x \in keys : \A y \in keys : KeyLeq(x, y)
         IN <<k>> \o KeySeq(keys \ {k})

\* The mutant writes a string's characters as they are.
EscapeNone(s) == s

\* format_escaped_str: a quote and a backslash get a backslash in front.
RECURSIVE Escape(_)
Escape(s) ==
    IF s = <<>> THEN <<>>
    ELSE (IF Head(s) \in {QUOTE, BSLASH} THEN <<BSLASH, Head(s)>> ELSE <<Head(s)>>)
         \o Escape(Tail(s))

RECURSIVE to_string(_)
RECURSIVE WriteMembers(_, _)
RECURSIVE WriteElements(_)

WriteMembers(o, keys) ==
    IF keys = <<>> THEN <<>>
    ELSE <<QUOTE>> \o Escape(Head(keys)) \o <<QUOTE, COLON>> \o to_string(o[Head(keys)])
         \o (IF Len(keys) > 1 THEN <<COMMA>> ELSE <<>>)
         \o WriteMembers(o, Tail(keys))

WriteElements(a) ==
    IF a = <<>> THEN <<>>
    ELSE to_string(Head(a)) \o (IF Len(a) > 1 THEN <<COMMA>> ELSE <<>>)
         \o WriteElements(Tail(a))

to_string(v) ==
    CASE v.t = "null" -> <<WordNull>>
      [] v.t = "bool" -> <<IF v.b THEN WordTrue ELSE WordFalse>>
      [] v.t = "num" -> v.s
      [] v.t = "str" -> <<QUOTE>> \o Escape(v.s) \o <<QUOTE>>
      [] v.t = "arr" -> <<LBRACK>> \o WriteElements(v.a) \o <<RBRACK>>
      [] v.t = "obj" -> <<LBRACE>> \o WriteMembers(v.o, KeySeq(DOMAIN v.o)) \o <<RBRACE>>

(***************************************************************************)
(* log::Level and log::LevelFilter.                                        *)
(***************************************************************************)
Levels == {"Error", "Warn", "Info", "Debug", "Trace"}
LevelFilters == {"Off"} \cup Levels

\* The derived order of Level and LevelFilter: Off < Error < ... < Trace.
LevelOrd == [Off |-> 0, Error |-> 1, Warn |-> 2, Info |-> 3, Debug |-> 4, Trace |-> 5]

\* Display for Level.
LevelToString(level) ==
    Str([Error |-> "ERROR", Warn |-> "WARN", Info |-> "INFO",
         Debug |-> "DEBUG", Trace |-> "TRACE"][level])

\* str::to_lowercase, symbol by symbol.
LowerOf(c) ==
    CASE c = "ERROR" -> "error"
      [] c = "WARN" -> "warn"
      [] c = "INFO" -> "info"
      [] c = "DEBUG" -> "debug"
      [] c = "TRACE" -> "trace"
      [] OTHER -> c

ToLowercase(s) == [i \in DOMAIN s |-> LowerOf(s[i])]

(***************************************************************************)
(* Option, LoggerConfig, LogConfig, POGRLogger.                            *)
(***************************************************************************)
None == [some |-> FALSE]
Some(x) == [some |-> TRUE, v |-> x]

LoggerConfig(service, environment) ==
    [service |-> service, environment |-> environment, default_type |-> None]

ClientBuild(client_id, build_id, logger_config) ==
    [variant |-> "ClientBuild", client_id |-> client_id, build_id |-> build_id,
     logger_config |-> logger_config]

AccessKeys(access_key, secret_key, logger_config) ==
    [variant |-> "AccessKeys", access_key |-> access_key, secret_key |-> secret_key,
     logger_config |-> logger_config]

DefaultUrl == Str("https://api.pogr.io/v1/intake/logs")

\* The mutant lets the environment variable win over the argument.
newEnvFirst(client, api_url, auth_config, logger_config, env_url) ==
    LET url == IF env_url.some THEN env_url.v
               ELSE IF api_url.some THEN api_url.v
               ELSE DefaultUrl
    IN [client |-> Some(client), api_url |-> Some(url),
        auth_config |-> auth_config, logger_config |-> logger_config]

\* POGRLogger::new.  env_url is the value of POGR_INTAKE_URL, if set.
new(client, api_url, auth_config, logger_config, env_url) ==
    LET url == IF api_url.some THEN api_url.v
               ELSE IF env_url.some THEN env_url.v
               ELSE DefaultUrl
    IN [client |-> Some(client), api_url |-> Some(url),
        auth_config |-> auth_config, logger_config |-> logger_config]

\* The application's sink before POGRLogger::new and after it is dropped.
Unbuilt == [state |-> "unbuilt"]
Dropped == [state |-> "dropped"]
IsSink(s) == "client" \in DOMAIN s

\* The mutant builds the sink anew around the client, with the default URL.
set_clientResetUrl(self, client) ==
    [self EXCEPT !.client = Some(client), !.api_url = Some(DefaultUrl)]

\* self.client = Some(client)
set_client(self, client) == [self EXCEPT !.client = Some(client)]

\* self.api_url = Some(api_url)
set_api_url(self, api_url) == [self EXCEPT !.api_url = Some(api_url)]

(***************************************************************************)
(* Log::enabled for POGRLogger.                                            *)
(***************************************************************************)
enabled(self, level) == LevelOrd[level] <= LevelOrd["Info"]

(***************************************************************************)
(* The envelope of a facade record (POGRLogger::log).                      *)
(***************************************************************************)
\* The mutant takes the identity from the LoggerConfig inside the LogConfig.
BaseEnvelopeFromVariant(self, level) ==
    JObj([k \in {Str("service"), Str("environment"), Str("severity")} |->
            CASE k = Str("service") -> JStr(self.auth_config.logger_config.service)
              [] k = Str("environment")
                   -> JStr(self.auth_config.logger_config.environment)
              [] k = Str("severity") -> JStr(ToLowercase(LevelToString(level)))])

BaseEnvelope(self, level) ==
    JObj([k \in {Str("service"), Str("environment"), Str("severity")} |->
            CASE k = Str("service") -> JStr(self.logger_config.service)
              [] k = Str("environment") -> JStr(self.logger_config.environment)
              [] k = Str("severity") -> JStr(ToLowercase(LevelToString(level)))])

\* for (key, value) in drained_map { structured_data[&key] = value; }
RECURSIVE MergeInto(_, _)
MergeInto(structured_data, drained_map) ==
    IF DOMAIN drained_map = {} THEN structured_data
    ELSE LET key == CHOOSE k \in DOMAIN drained_map : TRUE
             rest == [k \in DOMAIN drained_map \ {key} |-> drained_map[k]]
         IN MergeInto(IndexSet(structured_data, key, drained_map[key]), rest)

LogEnvelopeKeepBase(self, level, message) ==
    LET maybe == from_str(message)
    IN IF maybe.ok /\ maybe.v.t = "obj"
       THEN JObj([k \in DOMAIN maybe.v.o \cup DOMAIN BaseEnvelope(self, level).o |->
                    IF k \in DOMAIN BaseEnvelope(self, level).o
                    THEN BaseEnvelope(self, level).o[k] ELSE maybe.v.o[k]])
       ELSE IF maybe.ok THEN BaseEnvelope(self, level)
       ELSE IndexSet(BaseEnvelope(self, level), Str("log"), JStr(message))

LogEnvelope(self, level, message) ==
    LET maybe_structured_message == from_str(message)
        structured_data == BaseEnvelope(self, level)
    IN IF maybe_structured_message.ok
       THEN IF maybe_structured_message.v.t = "obj"
            THEN MergeInto(structured_data, maybe_structured_message.v.o)
            ELSE structured_data
       ELSE IndexSet(structured_data, Str("log"), JStr(message))

(***************************************************************************)
(* The envelope of custom_log.                                             *)
(***************************************************************************)
CustomEnvelopeMerged(self, level, msg, log_type, data, tags) ==
    LET shape == JObj([k \in {Str("type"), Str("log"), Str("data"), Str("tags")} |->
                        CASE k = Str("type") -> JStr(log_type)
                          [] k = Str("log") -> JStr(msg)
                          [] k = Str("data") -> data
                          [] k = Str("tags") -> tags])
        base == MergeInto(shape, BaseEnvelope(self, level).o)
    IN IF data.t = "obj" THEN MergeInto(base, data.o) ELSE base

CustomEnvelope(self, level, msg, log_type, data, tags) ==
    JObj([k \in {Str("service"), Str("environment"), Str("severity"), Str("type"),
                 Str("log"), Str("data"), Str("tags")} |->
            CASE k = Str("service") -> JStr(self.logger_config.service)
              [] k = Str("environment") -> JStr(self.logger_config.environment)
              [] k = Str("severity") -> JStr(ToLowercase(LevelToString(level)))
              [] k = Str("type") -> JStr(log_type)
              [] k = Str("log") -> JStr(msg)
              [] k = Str("data") -> data
              [] k = Str("tags") -> tags])

(***************************************************************************)
(* Request headers, as the ordered list of (name, value) pairs.            *)
(***************************************************************************)
ContentTypeJson == <<Str("content-type"), Str("application/json")>>

AuthHeadersBoth(auth_config) ==
    IF auth_config.variant = "ClientBuild"
    THEN << <<Str("POGR_CLIENT"), auth_config.client_id>>,
            <<Str("POGR_BUILD"), auth_config.build_id>>,
            <<Str("POGR_ACCESS"), auth_config.client_id>> >>
    ELSE << <<Str("POGR_ACCESS"), auth_config.access_key>>,
            <<Str("POGR_SECRET"), auth_config.secret_key>> >>

\* match auth_config { ClientBuild {..} => ..., AccessKeys {..} => ... }
AuthHeaders(auth_config) ==
    IF auth_config.variant = "ClientBuild"
    THEN << <<Str("POGR_CLIENT"), auth_config.client_id>>,
            <<Str("POGR_BUILD"), auth_config.build_id>> >>
    ELSE << <<Str("POGR_ACCESS"), auth_config.access_key>>,
            <<Str("POGR_SECRET"), auth_config.secret_key>> >>

(***************************************************************************)
(* Detached tasks.  tokio::spawn moves the captured values into the task;  *)
(* the task builds the request and sends it once.                          *)
(***************************************************************************)
SpawnAwaited(list, kind, src, client, api_url, auth_config, body) ==
    Append(list, [kind |-> kind, src |-> src, client |-> client, api_url |-> api_url,
                  auth_config |-> auth_config, body |-> body,
                  st |-> "ok", attempts |-> 1,
                  request |-> Some([url |-> api_url, body |-> body,
                                    headers |-> <<ContentTypeJson>>])])

Spawn(list, kind, src, client, api_url, auth_config, body) ==
    Append(list, [kind |-> kind, src |-> src, client |-> client, api_url |-> api_url,
                  auth_config |-> auth_config, body |-> body,
                  st |-> "spawned", attempts |-> 0, request |-> None])

\* The mutant reads the URL from the sink when the task runs.
RequestOfLive(task) ==
    [url |-> IF IsSink(sink) THEN sink.api_url.v ELSE DefaultUrl,
     body |-> task.body,
     headers |-> (IF task.kind = "custom_log"
                  THEN <<ContentTypeJson, ContentTypeJson>>
                  ELSE <<ContentTypeJson>>) \o AuthHeaders(task.auth_config)]

\* RequestBuilder::json sets the content type; custom_log adds the header again.
\* The task owns clones of the client, the URL and the auth config (145-146).
RequestOf(task) ==
    [url |-> task.api_url, body |-> task.body,
     headers |-> (IF task.kind = "custom_log"
                  THEN <<ContentTypeJson, ContentTypeJson>>
                  ELSE <<ContentTypeJson>>) \o AuthHeaders(task.auth_config)]

Outcomes == {"ok", "http_error", "transport_error"}

TaskAfterSendRetry(task, outcome) ==
    [task EXCEPT !.st = IF outcome = "ok" THEN "ok" ELSE "spawned",
                 !.attempts = @ + 1,
                 !.request = Some(RequestOf(task))]

\* let _ = req.send().await  /  match req.send().await { ... eprintln ... }
TaskAfterSend(task, outcome) ==
    [task EXCEPT !.st = outcome, !.attempts = @ + 1, !.request = Some(RequestOf(task))]

\* The mutant runs the tasks one after the other, in the order of the calls.
RunnableInOrder(list, i) ==
    /\ list[i].st = "spawned"
    /\ \A j \in 1..(i - 1) : list[j].st # "spawned"

\* A spawned task is scheduled on its own: it can run whatever the others do.
Runnable(list, i) == list[i].st = "spawned"

\* The task runs to its end with the given outcome of send().  arrived lists
\* the requests that the endpoint answered, in the order they reached it.
TaskRunTo(i, outcome) ==
    /\ i \in DOMAIN tasks
    /\ Runnable(tasks, i)
    /\ IF tasks[i].kind = "log" /\ ~tasks[i].client.some
       THEN /\ tasks' = [tasks EXCEPT ![i] = [@ EXCEPT !.st = "panicked"]]
            /\ UNCHANGED arrived
       ELSE /\ tasks' = [tasks EXCEPT ![i] = TaskAfterSend(@, outcome)]
            /\ arrived' = IF outcome \in {"ok", "http_error"}
                          THEN Append(arrived, i) ELSE arrived
    /\ UNCHANGED <<sink, facade_logger, max_level, LOGGER, initPc, last, env, built, messages>>

TaskRun(i) == \E outcome \in Outcomes : TaskRunTo(i, outcome)

(***************************************************************************)
(* POGRLogger's operations, called on a sink `self`.  rt tells whether the *)
(* call is made inside a Tokio runtime; tokio::spawn panics outside one.   *)
(* Each gives the tasks after the call and the call's result.              *)
(***************************************************************************)
LogEffectNoGuard(self, list, level, message, rt) ==
    IF ~self.api_url.some THEN [tasks |-> list, result |-> "panicked"]
    ELSE IF ~rt THEN [tasks |-> list, result |-> "panicked"]
    ELSE [tasks |-> Spawn(list, "log", [level |-> level, message |-> message],
                          self.client, self.api_url.v, self.auth_config,
                          LogEnvelope(self, level, message)),
          result |-> "returned"]

LogEffect(self, list, level, message, rt) ==
    IF ~enabled(self, level) THEN [tasks |-> list, result |-> "returned"]
    ELSE IF ~self.api_url.some THEN [tasks |-> list, result |-> "panicked"]
    ELSE IF ~rt THEN [tasks |-> list, result |-> "panicked"]
    ELSE [tasks |-> Spawn(list, "log", [level |-> level, message |-> message],
                          self.client, self.api_url.v, self.auth_config,
                          LogEnvelope(self, level, message)),
          result |-> "returned"]

\* The mutant makes custom_log honour the sink's enabled check, as log does.
CustomLogEffectGuarded(self, list, level, msg, log_type, data, tags, rt) ==
    IF ~self.client.some \/ ~enabled(self, level)
    THEN [tasks |-> list, result |-> "returned"]
    ELSE IF ~rt THEN [tasks |-> list, result |-> "panicked"]
    ELSE [tasks |-> Spawn(list, "custom_log",
                          [level |-> level, msg |-> msg, log_type |-> log_type,
                           data |-> data, tags |-> tags],
                          self.client,
                          IF self.api_url.some THEN self.api_url.v ELSE DefaultUrl,
                          self.auth_config,
                          CustomEnvelope(self, level, msg, log_type, data, tags)),
          result |-> "returned"]

CustomLogEffect(self, list, level, msg, log_type, data, tags, rt) ==
    IF ~self.client.some THEN [tasks |-> list, result |-> "returned"]
    ELSE IF ~rt THEN [tasks |-> list, result |-> "panicked"]
    ELSE [tasks |-> Spawn(list, "custom_log",
                          [level |-> level, msg |-> msg, log_type |-> log_type,
                           data |-> data, tags |-> tags],
                          self.client,
                          IF self.api_url.some THEN self.api_url.v ELSE DefaultUrl,
                          self.auth_config,
                          CustomEnvelope(self, level, msg, log_type, data, tags)),
          result |-> "returned"]

\* sink.log(&record), called directly on a POGRLogger.
SinkLog(level, message, rt) ==
    LET eff == LogEffect(sink, tasks, level, message, rt)
    IN /\ tasks' = eff.tasks
       /\ last' = [op |-> "log", result |-> eff.result]
       /\ UNCHANGED <<sink, facade_logger, max_level, LOGGER, initPc, env, built, arrived, messages>>

\* sink.custom_log(level, msg, log_type, data, tags).await
CustomLog(level, msg, log_type, data, tags, rt) ==
    LET eff == CustomLogEffect(sink, tasks, level, msg, log_type, data, tags, rt)
    IN /\ tasks' = eff.tasks
       /\ last' = [op |-> "custom_log", result |-> eff.result]
       /\ UNCHANGED <<sink, facade_logger, max_level, LOGGER, initPc, env, built, arrived, messages>>

\* sink.enabled(&metadata)
SinkEnabled(level) ==
    /\ last' = [op |-> "enabled", result |-> IF enabled(sink, level) THEN "true" ELSE "false"]
    /\ UNCHANGED <<sink, tasks, facade_logger, max_level, LOGGER, initPc, env, built, arrived, messages>>

\* sink.flush()
SinkFlush ==
    /\ last' = [op |-> "flush", result |-> "returned"]
    /\ UNCHANGED <<sink, tasks, facade_logger, max_level, LOGGER, initPc, env, built, arrived, messages>>

(***************************************************************************)
(* The life of the application's sink: construction, the setters, the      *)
(* environment variable, drop.                                             *)
(***************************************************************************)
\* let sink = POGRLogger::new(Some(client), api_url, auth_config, logger_config)
NewSink(api_url, auth_config, logger_config) ==
    /\ sink = Unbuilt
    /\ sink' = new("client", api_url, auth_config, logger_config, env)
    /\ built' = Some([api_url |-> api_url, env |-> env])
    /\ last' = [op |-> "new", result |-> "returned"]
    /\ UNCHANGED <<tasks, facade_logger, max_level, LOGGER, initPc, env, arrived, messages>>

\* The process sets or removes POGR_INTAKE_URL.
SetEnv(value) ==
    /\ env' = value
    /\ env' # env
    /\ UNCHANGED <<sink, tasks, facade_logger, max_level, LOGGER, initPc, last,
                   built, arrived, messages>>

SetApiUrl(api_url) ==
    /\ IsSink(sink)
    /\ sink' = set_api_url(sink, api_url)
    /\ last' = [op |-> "set_api_url", result |-> "returned"]
    /\ UNCHANGED <<tasks, facade_logger, max_level, LOGGER, initPc, env, built,
                   arrived, messages>>

SetClient(client) ==
    /\ IsSink(sink)
    /\ sink' = set_client(sink, client)
    /\ last' = [op |-> "set_client", result |-> "returned"]
    /\ UNCHANGED <<tasks, facade_logger, max_level, LOGGER, initPc, env, built,
                   arrived, messages>>

\* The mutant aborts the tasks that are still pending, as a Drop holding
\* their JoinHandles would.
DropSinkAborting ==
    /\ IsSink(sink)
    /\ sink' = Dropped
    /\ tasks' = [i \in DOMAIN tasks |->
                   IF tasks[i].st = "spawned"
                   THEN [tasks[i] EXCEPT !.st = "aborted"] ELSE tasks[i]]
    /\ last' = [op |-> "drop", result |-> "returned"]
    /\ UNCHANGED <<facade_logger, max_level, LOGGER, initPc, env, built,
                   arrived, messages>>

\* The sink goes out of scope; the tasks it spawned are detached.
DropSink ==
    /\ IsSink(sink)
    /\ sink' = Dropped
    /\ last' = [op |-> "drop", result |-> "returned"]
    /\ UNCHANGED <<tasks, facade_logger, max_level, LOGGER, initPc, env, built,
                   arrived, messages>>

(***************************************************************************)
(* Global registration: init_logger, and LoggerFn, the logger it installs  *)
(* in the log facade.  facade_logger is the facade's logger ("nop" until   *)
(* set_logger succeeds), max_level the facade's maximum level, LOGGER the  *)
(* static OnceCell<Mutex<POGRLogger>>.                                     *)
(***************************************************************************)
\* POGRLogger::new(..); set_logger(LOG_FN).expect("Failed to set logger").
\* set_logger succeeds once per process; a later caller, on any thread and
\* also while the first caller has not yet reached set_max_level, gets Err
\* and panics in expect, before its own set_max_level.
\* The mutant sets the maximum level before registering.
InitLoggerSetLoggerLevelFirst(auth_config, api_url, logger_config, filter, env_url) ==
    LET _logger == new("client", api_url, auth_config, logger_config, env_url)
    IN /\ _logger.client.some
       /\ IF facade_logger = "nop"
          THEN /\ initPc.pc = "idle"
               /\ facade_logger' = "LoggerFn"
               /\ initPc' = [pc |-> "set_max_level", filter |-> filter]
               /\ UNCHANGED <<last, max_level>>
          ELSE /\ last' = [op |-> "init_logger", result |-> "panicked"]
               /\ max_level' = filter
               /\ UNCHANGED <<facade_logger, initPc>>
       /\ UNCHANGED <<sink, tasks, LOGGER, env, built, arrived, messages>>

InitLoggerSetLogger(auth_config, api_url, logger_config, filter, env_url) ==
    LET \* constructed, never stored, dropped when init_logger returns
        _logger == new("client", api_url, auth_config, logger_config, env_url)
    IN /\ _logger.client.some
       /\ IF facade_logger = "nop"
          THEN /\ initPc.pc = "idle"
               /\ facade_logger' = "LoggerFn"
               /\ initPc' = [pc |-> "set_max_level", filter |-> filter]
               /\ UNCHANGED last
          ELSE /\ last' = [op |-> "init_logger", result |-> "panicked"]
               /\ UNCHANGED <<facade_logger, initPc>>
       /\ UNCHANGED <<sink, tasks, max_level, LOGGER, env, built, arrived, messages>>

\* The mutant hard-codes the maximum level.
InitLoggerSetMaxLevelFixed ==
    /\ initPc.pc = "set_max_level"
    /\ max_level' = "Trace"
    /\ initPc' = [pc |-> "idle"]
    /\ last' = [op |-> "init_logger", result |-> "returned"]
    /\ UNCHANGED <<sink, tasks, facade_logger, LOGGER, env, built, arrived, messages>>

\* set_max_level(filter)
InitLoggerSetMaxLevel ==
    /\ initPc.pc = "set_max_level"
    /\ max_level' = initPc.filter
    /\ initPc' = [pc |-> "idle"]
    /\ last' = [op |-> "init_logger", result |-> "returned"]
    /\ UNCHANGED <<sink, tasks, facade_logger, LOGGER, env, built, arrived, messages>>

\* The facade's log! macros: the record goes to the logger only when its
\* level passes max_level.  LoggerFn::log is
\* LOGGER.get().unwrap().lock().unwrap().log(record); TestLogger::log pushes
\* format!("{}", record.args()).
FacadeEffect(level, message, rt) ==
    IF LevelOrd[level] > LevelOrd[max_level]
      THEN [tasks |-> tasks, result |-> "returned", messages |-> messages]
    ELSE IF facade_logger = "nop"
      THEN [tasks |-> tasks, result |-> "returned", messages |-> messages]
    ELSE IF facade_logger = "TestLogger"
      THEN [tasks |-> tasks, result |-> "returned",
            messages |-> Append(messages, [level |-> level, message |-> message])]
    ELSE IF ~LOGGER.some
      THEN [tasks |-> tasks, result |-> "panicked", messages |-> messages]
    ELSE [tasks |-> LogEffect(LOGGER.v, tasks, level, message, rt).tasks,
          result |-> LogEffect(LOGGER.v, tasks, level, message, rt).result,
          messages |-> messages]

FacadeLog(level, message, rt) ==
    LET eff == FacadeEffect(level, message, rt)
    IN /\ tasks' = eff.tasks
       /\ messages' = eff.messages
       /\ last' = [op |-> "facade_log", result |-> eff.result]
       /\ UNCHANGED <<sink, facade_logger, max_level, LOGGER, initPc, env, built, arrived>>

\* structured_log!: the message is json!({"log": msg, "type": log_type,
\* "data": data, "tags": tags}).to_string()
structured_message(msg, log_type, data, tags) ==
    to_string(JObj([k \in {Str("log"), Str("type"), Str("data"), Str("tags")} |->
                      CASE k = Str("log") -> JStr(msg)
                        [] k = Str("type") -> JStr(log_type)
                        [] k = Str("data") -> data
                        [] k = Str("tags") -> tags]))

\* The mutant sends every level through the catch-all arm.
MacroLevelCatchAll(level) == "Info"

\* match $level: each level has its own arm, the catch-all arm is never taken.
MacroLevel(level) == level

\* structured_log!(level, msg, log_type, data, tags): one call of the
\* facade macro of the level, with the message as its only argument.
StructuredLog(level, msg, log_type, data, tags, rt) ==
    LET eff == FacadeEffect(MacroLevel(level),
                            structured_message(msg, log_type, data, tags), rt)
    IN /\ tasks' = eff.tasks
       /\ messages' = eff.messages
       /\ last' = [op |-> "structured_log", result |-> eff.result,
                   args |-> [level |-> level, msg |-> msg, log_type |-> log_type,
                             data |-> data, tags |-> tags]]
       /\ UNCHANGED <<sink, facade_logger, max_level, LOGGER, initPc, env, built, arrived>>

\* The record that structured_log! emits, handed to the sink's own log.
StructuredSinkLog(level, msg, log_type, data, tags, rt) ==
    LET eff == LogEffect(sink, tasks, MacroLevel(level),
                         structured_message(msg, log_type, data, tags), rt)
    IN /\ tasks' = eff.tasks
       /\ last' = [op |-> "structured_log", result |-> eff.result,
                   args |-> [level |-> level, msg |-> msg, log_type |-> log_type,
                             data |-> data, tags |-> tags]]
       /\ UNCHANGED <<sink, facade_logger, max_level, LOGGER, initPc, env, built,
                      arrived, messages>>

\* log_enabled!: level <= max_level && logger().enabled(metadata)
FacadeEnabled(level) ==
    /\ last' = [op |-> "facade_enabled",
                result |-> IF LevelOrd[level] > LevelOrd[max_level] THEN "false"
                           ELSE IF facade_logger = "nop" THEN "false"
                           ELSE IF ~LOGGER.some THEN "panicked"
                           ELSE IF enabled(LOGGER.v, level) THEN "true" ELSE "false"]
    /\ UNCHANGED <<sink, tasks, facade_logger, max_level, LOGGER, initPc, env, built, arrived, messages>>

\* log::logger().flush()
FacadeFlush ==
    /\ last' = [op |-> "facade_flush",
                result |-> IF facade_logger = "nop" THEN "returned"
                           ELSE IF ~LOGGER.some THEN "panicked"
                           ELSE "returned"]
    /\ UNCHANGED <<sink, tasks, facade_logger, max_level, LOGGER, initPc, env, built, arrived, messages>>

(***************************************************************************)
(* Inputs.                                                                 *)
(***************************************************************************)
Identity == LoggerConfig(Str("svc"), Str("prod"))
Identities == {Identity, LoggerConfig(Str("test_service"), Str("test_env"))}
AuthConfigs == {ClientBuild(Str("cid"), Str("bid"), Identity),
                AccessKeys(Str("AK"), Str("SK"), Identity)}
Filters == {"Error", "Info", "Trace"}
MockUrl == Str("http://127.0.0.1:1234")
EnvUrl == Str("https://intake.example/logs")
OtherUrl == Str("https://other.example/logs")
UrlArgs == {None, Some(MockUrl)}
EnvUrls == {None, Some(EnvUrl)}

Quoted(s) == <<QUOTE>> \o s \o <<QUOTE>>
Member(k, v) == Quoted(k) \o <<COLON>> \o v
Braced(s) == <<LBRACE>> \o s \o <<RBRACE>>
Prefixes(s) == {SubSeq(s, 1, n) : n \in 0..Len(s)}

MsgPlain == <<"hello", SPACE, "world">>
MsgSeverity == Braced(Member(Str("severity"), Quoted(Str("custom"))))
MsgUserId == Braced(Member(Str("user_id"), <<"123">>))
MsgAllBase ==
    Braced(Member(Str("service"), Quoted(Str("other"))) \o <<COMMA, SPACE>>
           \o Member(Str("environment"), <<WordNull>>) \o <<COMMA>>
           \o Member(Str("log"), <<LBRACK, "1", COMMA, "42", RBRACK>>))
MsgRepeatedKey ==
    Braced(Member(Str("a"), <<"1">>) \o <<COMMA>> \o Member(Str("a"), <<WordTrue>>))
MsgNested ==
    Braced(Member(Str("data"), Braced(Member(Str("service"), <<"1">>))))
MsgEscaped == Quoted(<<"a", BSLASH, QUOTE, "b">>)
MsgTrailingComma == Braced(Member(Str("a"), <<"1">>) \o <<COMMA>>)
MsgArray == <<LBRACK, WordFalse, COMMA>> \o Quoted(Str("a")) \o <<RBRACK>>

SampleMessages ==
    UNION {Prefixes(m) : m \in {MsgPlain, MsgSeverity, MsgUserId, MsgAllBase,
                                MsgRepeatedKey, MsgNested, MsgEscaped,
                                MsgTrailingComma, MsgArray}}

BuildAlphabet == {LBRACE, RBRACE, LBRACK, RBRACK, QUOTE, COLON, COMMA, SPACE, "1", "a"}

\* Every text of at most MaxMsgLen symbols, and the samples with their prefixes.
BuildMessages ==
    UNION {[1..n -> BuildAlphabet] : n \in 0..MaxMsgLen} \cup SampleMessages

DataCode == JObj([k \in {Str("code")} |-> JNum(Str("401"))])
DataService == JObj([k \in {Str("service"), Str("severity")} |-> JStr(Str("other"))])
TagsEnv == JObj([k \in {Str("env")} |-> JStr(Str("prod"))])
TagsService == JObj([k \in {Str("environment")} |-> JArr(<<JNull>>)])

BuildData == {DataCode, DataService, JNull, JStr(Str("service"))}
BuildTags == {TagsEnv, TagsService, JObj(EmptyMap)}
BuildTexts == {Str("failed"), MsgSeverity, <<>>, <<"a", BSLASH, QUOTE>>}
BuildTypes == {Str("auth_error"), Str("service")}

(***************************************************************************)
(* Spec: one sink constructed by the application, the log and custom_log   *)
(* calls made directly on it, and the detached tasks it spawns.            *)
(***************************************************************************)
Init ==
    /\ \E auth_config \in AuthConfigs :
          sink = new("client", None, auth_config, Identity, None)
    /\ tasks = <<>>
    /\ facade_logger = "nop"
    /\ max_level = "Off"
    /\ LOGGER = None
    /\ initPc = [pc |-> "idle"]
    /\ last = [op |-> "new", result |-> "returned"]
    /\ env = None
    /\ built = Some([api_url |-> None, env |-> None])
    /\ arrived = <<>>
    /\ messages = <<>>

Next ==
    \/ /\ Len(tasks) < MaxTasks
       /\ \E level \in Levels, rt \in BOOLEAN : SinkLog(level, MsgUserId, rt)
    \/ /\ Len(tasks) < MaxTasks
       /\ \E level \in Levels, rt \in BOOLEAN :
             CustomLog(level, Str("failed"), Str("auth_error"), DataCode, TagsEnv, rt)
    \/ \E i \in 1..MaxTasks : TaskRun(i)

Spec == Init /\ [][Next]_vars

(***************************************************************************)
(* SpecFacade: the process with init_logger and the calls made through the *)
(* log facade, next to direct calls on the application's sink (one task at *)
(* a time here: tasks are the subject of Spec).                            *)
(***************************************************************************)
NextFacade ==
    \/ \E auth_config \in AuthConfigs, filter \in Filters :
          InitLoggerSetLogger(auth_config, None, Identity, filter, None)
    \/ InitLoggerSetMaxLevel
    \/ /\ tasks = <<>>
       /\ \E level \in Levels, message \in {MsgPlain, MsgUserId}, rt \in BOOLEAN :
             FacadeLog(level, message, rt)
    \/ \E level \in Levels : FacadeEnabled(level)
    \/ FacadeFlush
    \/ /\ tasks = <<>>
       /\ \E level \in Levels, message \in {MsgPlain, MsgUserId}, rt \in BOOLEAN :
             SinkLog(level, message, rt)
    \/ /\ tasks = <<>>
       /\ \E level \in Levels, rt \in BOOLEAN :
             CustomLog(level, Str("failed"), Str("auth_error"), DataCode, TagsEnv, rt)
    \/ \E level \in Levels : SinkEnabled(level)
    \/ SinkFlush
    \/ TaskRun(1)

SpecFacade == Init /\ [][NextFacade]_vars

(***************************************************************************)
(* SpecBuild: one call on a fresh sink, over a wide set of records and     *)
(* events, to examine the envelope that the call hands to its task.        *)
(***************************************************************************)
InitBuild ==
    /\ \E auth_config \in AuthConfigs, logger_config \in Identities :
          sink = new("client", None, auth_config, logger_config, None)
    /\ tasks = <<>>
    /\ facade_logger = "nop"
    /\ max_level = "Off"
    /\ LOGGER = None
    /\ initPc = [pc |-> "idle"]
    /\ last = [op |-> "new", result |-> "returned"]
    /\ env = None
    /\ built = Some([api_url |-> None, env |-> None])
    /\ arrived = <<>>
    /\ messages = <<>>

NextBuild ==
    \/ /\ last.op = "new"
       /\ \E level \in Levels, message \in BuildMessages : SinkLog(level, message, TRUE)
    \/ /\ last.op = "new"
       /\ \E level \in Levels, msg \in BuildTexts, log_type \in BuildTypes,
             data \in BuildData, tags \in BuildTags :
             CustomLog(level, msg, log_type, data, tags, TRUE)
    \* the record of a structured_log! handed to the sink's log
    \/ /\ last.op = "new"
       /\ \E level \in Levels, msg \in BuildTexts, log_type \in BuildTypes,
             data \in BuildData, tags \in BuildTags :
             StructuredSinkLog(level, msg, log_type, data, tags, TRUE)

SpecBuild == InitBuild /\ [][NextBuild]_vars

(***************************************************************************)
(* SpecConfig: the life of one sink, from before POGRLogger::new to after  *)
(* its drop, with the setters and the environment variable changing around *)
(* the calls (each request answered with success).                         *)
(***************************************************************************)
InitConfig ==
    /\ sink = Unbuilt
    /\ tasks = <<>>
    /\ facade_logger = "nop"
    /\ max_level = "Off"
    /\ LOGGER = None
    /\ initPc = [pc |-> "idle"]
    /\ last = [op |-> "none", result |-> "returned"]
    /\ env \in EnvUrls
    /\ built = None
    /\ arrived = <<>>
    /\ messages = <<>>

NextConfig ==
    \/ \E api_url \in UrlArgs :
          NewSink(api_url, ClientBuild(Str("cid"), Str("bid"), Identity), Identity)
    \/ \E value \in EnvUrls : SetEnv(value)
    \/ SetApiUrl(OtherUrl)
    \/ SetClient("client2")
    \/ DropSink
    \/ /\ IsSink(sink)
       /\ Len(tasks) < MaxTasks
       /\ SinkLog("Info", MsgUserId, TRUE)
    \/ /\ IsSink(sink)
       /\ Len(tasks) < MaxTasks
       /\ CustomLog("Info", Str("failed"), Str("auth_error"), DataCode, TagsEnv, TRUE)
    \/ \E i \in DOMAIN tasks : TaskRunTo(i, "ok")

SpecConfig == InitConfig /\ [][NextConfig]_vars

(***************************************************************************)
(* SpecMacro: structured_log! in the process of structured_log_test.rs,    *)
(* after init_test_logger: TestLogger registered, maximum level Trace.     *)
(***************************************************************************)
InitMacro ==
    /\ \E auth_config \in AuthConfigs :
          sink = new("client", None, auth_config, Identity, None)
    /\ tasks = <<>>
    /\ facade_logger = "TestLogger"
    /\ max_level = "Trace"
    /\ LOGGER = None
    /\ initPc = [pc |-> "idle"]
    /\ last = [op |-> "new", result |-> "returned"]
    /\ env = None
    /\ built = Some([api_url |-> None, env |-> None])
    /\ arrived = <<>>
    /\ messages = <<>>

NextMacro ==
    /\ messages = <<>>
    /\ \E level \in Levels, msg \in BuildTexts, log_type \in BuildTypes,
          data \in BuildData, tags \in BuildTags, rt \in BOOLEAN :
          StructuredLog(level, msg, log_type, data, tags, rt)

SpecMacro == InitMacro /\ [][NextMacro]_vars

(***************************************************************************)
(* SpecLive: calls, the drop of the sink and the tasks, in a process that   *)
(* does not exit.  The runtime polls every spawned task (tokio::spawn) and  *)
(* the transport ends every request with a response or an error, so a task  *)
(* that can run does run: weak fairness of each task's step.                *)
(***************************************************************************)
NextLive ==
    \/ /\ IsSink(sink)
       /\ Len(tasks) < MaxTasks
       /\ SinkLog("Info", MsgUserId, TRUE)
    \/ /\ IsSink(sink)
       /\ Len(tasks) < MaxTasks
       /\ CustomLog("Debug", Str("failed"), Str("auth_error"), DataCode, TagsEnv, TRUE)
    \/ DropSink
    \/ \E i \in 1..MaxTasks : TaskRun(i)

Fairness == \A i \in 1..MaxTasks : WF_vars(TaskRun(i))

SpecLive == Init /\ [][NextLive]_vars /\ Fairness

(***************************************************************************)
(* Properties.                                                             *)
(***************************************************************************)
BaseKeys == {Str("service"), Str("environment"), Str("severity")}
SeverityName == [Error |-> "error", Warn |-> "warn", Info |-> "info",
                 Debug |-> "debug", Trace |-> "trace"]

\* The value the sink gives to a base field for a record of that level.
BaseValue(key, level) ==
    CASE key = Str("service") -> JStr(sink.logger_config.service)
      [] key = Str("environment") -> JStr(sink.logger_config.environment)
      [] key = Str("severity") -> JStr(Str(SeverityName[level]))

IsJsonObject(message) == from_str(message).ok /\ from_str(message).v.t = "obj"

\* C1: for every record accepted by log whose message parses as a JSON
\* object, the shipped envelope holds every key of that object with the
\* message's value (so a message key named service, environment or severity
\* overwrites the base value), and the base fields the message does not name
\* keep the sink's values.
C1_MergeOverwrites ==
    \A i \in DOMAIN tasks :
        (tasks[i].kind = "log" /\ IsJsonObject(tasks[i].src.message)) =>
            LET obj == from_str(tasks[i].src.message).v.o
                shipped == tasks[i].body.o
            IN /\ DOMAIN shipped = DOMAIN obj \cup BaseKeys
               /\ \A k \in DOMAIN obj : shipped[k] = obj[k]
               /\ \A k \in BaseKeys \ DOMAIN obj :
                     shipped[k] = BaseValue(k, tasks[i].src.level)

\* A record whose message names service and environment was shipped with
\* the message's values for them, and with the sink's severity.
C1_Witness ==
    \E i \in DOMAIN tasks :
        /\ tasks[i].kind = "log"
        /\ tasks[i].src.message = MsgAllBase
        /\ tasks[i].body.o[Str("service")] = JStr(Str("other"))
        /\ tasks[i].body.o[Str("environment")] = JNull
        /\ tasks[i].body.o[Str("severity")] = JStr(Str("warn"))

\* C2: for every record accepted by log whose message is not a JSON object
\* (plain text, empty, malformed JSON, or a JSON number, string or array),
\* the shipped envelope's log field is the message text and its keys are
\* exactly service, environment, severity and log.
C2_PlainMessageIsLog ==
    \A i \in DOMAIN tasks :
        (tasks[i].kind = "log" /\ ~IsJsonObject(tasks[i].src.message)) =>
            /\ DOMAIN tasks[i].body.o = BaseKeys \cup {Str("log")}
            /\ tasks[i].body.o[Str("log")] = JStr(tasks[i].src.message)

\* C3: the body of custom_log's POST is exactly the object of service,
\* environment, severity, type, log, data and tags, with data and tags
\* embedded as given and nothing merged into the top level.
C3_CustomShape ==
    \A i \in DOMAIN tasks :
        tasks[i].kind = "custom_log" =>
            LET shipped == tasks[i].body.o
                src == tasks[i].src
            IN /\ DOMAIN shipped = BaseKeys \cup {Str("type"), Str("log"),
                                                  Str("data"), Str("tags")}
               /\ \A k \in BaseKeys : shipped[k] = BaseValue(k, src.level)
               /\ shipped[Str("type")] = JStr(src.log_type)
               /\ shipped[Str("log")] = JStr(src.msg)
               /\ shipped[Str("data")] = src.data
               /\ shipped[Str("tags")] = src.tags

\* An event whose data names service and severity, and whose message is the
\* text of a JSON object, was shipped.
C3_Witness ==
    \E i \in DOMAIN tasks :
        /\ tasks[i].kind = "custom_log"
        /\ tasks[i].src.data = DataService
        /\ tasks[i].src.tags = TagsService
        /\ tasks[i].src.msg = MsgSeverity
        /\ tasks[i].body.o[Str("service")] = JStr(sink.logger_config.service)

LoggingOps == {"log", "custom_log", "enabled", "flush",
               "facade_log", "facade_enabled", "facade_flush"}
FacadeOps == {"facade_log", "facade_enabled", "facade_flush"}

\* init_logger has returned normally.
InitLoggerDone == facade_logger = "LoggerFn" /\ initPc.pc = "idle"

\* C4: a logging call (a facade log, enabled or flush call after
\* init_logger, a direct log call, or custom_log) never panics.
C4_NeverPanics ==
    last.op \in LoggingOps => last.result # "panicked"

\* C5: log and custom_log return once the POST is handed to a detached
\* task: the step that hands it off leaves the new task unsent, touches no
\* other task, and is the step in which the call returns.
C5_ReturnsBeforeSend ==
    [][Len(tasks') > Len(tasks) =>
          /\ Len(tasks') = Len(tasks) + 1
          /\ SubSeq(tasks', 1, Len(tasks)) = tasks
          /\ tasks'[Len(tasks')].st = "spawned"
          /\ tasks'[Len(tasks')].attempts = 0
          /\ ~tasks'[Len(tasks')].request.some
          /\ last'.op \in {"log", "custom_log"}
          /\ last'.result = "returned"]_vars

\* A call has returned while its request and an earlier one are both unsent.
C5_Witness ==
    /\ Len(tasks) = 2
    /\ \A i \in DOMAIN tasks : tasks[i].st = "spawned" /\ ~tasks[i].request.some
    /\ tasks[2].kind = "custom_log"
    /\ last = [op |-> "custom_log", result |-> "returned"]

\* C6: after a successful init_logger the global slot LOGGER holds the sink
\* and facade calls are handled by it.
C6_SinkRegistered ==
    InitLoggerDone =>
        /\ LOGGER.some
        /\ last.op \in FacadeOps => last.result # "panicked"

\* C7: enabled(level) is true iff the level is at least as severe as the
\* configured minimum threshold (the filter given to init_logger).
C7_EnabledIffThreshold ==
    InitLoggerDone =>
        \A level \in Levels :
            enabled(sink, level) <=> LevelOrd[level] <= LevelOrd[max_level]

\* C8: a log call for a record whose level is not enabled spawns no task and
\* changes nothing of the sink or of the tasks; no task ever stems from such
\* a record.
C8_DisabledIsNoOp ==
    [][/\ \A level \in Levels, rt \in BOOLEAN :
             (~enabled(sink, level) /\ SinkLog(level, MsgUserId, rt)) =>
                 /\ UNCHANGED <<sink, tasks>>
                 /\ last'.result = "returned"
       /\ \A i \in DOMAIN tasks' :
             tasks'[i].kind = "log" => enabled(sink, tasks'[i].src.level)]_vars

\* A log call returned without a new task, after custom_log dispatched one.
C8_Witness ==
    /\ Len(tasks) = 1
    /\ tasks[1].kind = "custom_log"
    /\ last = [op |-> "log", result |-> "returned"]

IsAuthHeader(h) ==
    h[1] \in {Str("POGR_CLIENT"), Str("POGR_BUILD"), Str("POGR_ACCESS"), Str("POGR_SECRET")}

\* C9: every request sent carries exactly the two auth headers of the
\* sink's variant, with the configured values, and none of the other.
C9_AuthHeaders ==
    \A i \in DOMAIN tasks :
        tasks[i].request.some =>
            SelectSeq(tasks[i].request.v.headers, IsAuthHeader) =
                IF sink.auth_config.variant = "ClientBuild"
                THEN << <<Str("POGR_CLIENT"), sink.auth_config.client_id>>,
                        <<Str("POGR_BUILD"), sink.auth_config.build_id>> >>
                ELSE << <<Str("POGR_ACCESS"), sink.auth_config.access_key>>,
                        <<Str("POGR_SECRET"), sink.auth_config.secret_key>> >>

\* A ClientBuild sink has sent the requests of a log and of a custom_log.
C9_Witness ==
    /\ sink.auth_config.variant = "ClientBuild"
    /\ Len(tasks) = 2
    /\ tasks[1].kind = "log" /\ tasks[1].request.some
    /\ tasks[2].kind = "custom_log" /\ tasks[2].request.some

Failed == {"http_error", "transport_error"}

\* C10: a task sends at most once; once its attempt has failed the task
\* never changes again, and no step of a task changes the sink or the
\* result of a logging call.
C10_NoRetry ==
    [][\A i \in DOMAIN tasks :
          /\ tasks[i].st \in Failed => tasks'[i] = tasks[i]
          /\ tasks'[i].attempts <= 1
          /\ tasks'[i] # tasks[i] => UNCHANGED <<sink, last>>]_vars

\* The request of a custom_log failed in transport and that of a log got an
\* error status; each was attempted once, and the last call returned.
C10_Witness ==
    /\ Len(tasks) = 2
    /\ tasks[1].kind = "custom_log"
    /\ tasks[1].st = "transport_error" /\ tasks[1].attempts = 1
    /\ tasks[2].kind = "log"
    /\ tasks[2].st = "http_error" /\ tasks[2].attempts = 1
    /\ last = [op |-> "log", result |-> "returned"]

\* C11: an init_logger call made when a backend is already registered
\* panics, and its step leaves the registered backend, the maximum level,
\* the LOGGER cell and the first caller's progress as they were; a
\* registered backend is never replaced by any step.
C11_SecondInitFails ==
    [][/\ facade_logger # "nop" => facade_logger' = facade_logger
       /\ \A auth_config \in AuthConfigs, filter \in Filters :
             (facade_logger # "nop"
              /\ InitLoggerSetLogger(auth_config, None, Identity, filter, None))
             => /\ last' = [op |-> "init_logger", result |-> "panicked"]
                /\ UNCHANGED <<facade_logger, max_level, LOGGER, initPc>>]_vars

\* A second call has panicked after the first one set the maximum level.
C11_Witness ==
    /\ last = [op |-> "init_logger", result |-> "panicked"]
    /\ facade_logger = "LoggerFn"
    /\ initPc.pc = "idle"
    /\ max_level = "Error"

\* The URL that the documented priority gives for the constructor's inputs.
PriorityUrl(b) ==
    IF b.api_url.some THEN b.api_url.v
    ELSE IF b.env.some THEN b.env.v
    ELSE DefaultUrl

\* The step is a log or custom_log call that handed a task off.
HandsOff == Len(tasks') = Len(tasks) + 1

\* C12 as stated: new resolves the URL as argument, else environment
\* variable, else default, and every request of the sink is POSTed to that
\* resolved URL.
C12_RequestsToResolvedUrl ==
    [][/\ (sink = Unbuilt /\ IsSink(sink'))
          => sink'.api_url = Some(PriorityUrl(built'.v))
       /\ \A i \in DOMAIN tasks' :
             tasks'[i].request.some
             => tasks'[i].request.v.url = PriorityUrl(built'.v)]_vars

\* C12 amended: new resolves the URL as argument, else environment variable,
\* else default; every request is POSTed to the URL the sink held when its
\* call was made, which is the resolved URL until set_api_url replaces it.
C12_ResolvedUntilSet ==
    [][/\ (sink = Unbuilt /\ IsSink(sink'))
          => sink'.api_url = Some(PriorityUrl(built'.v))
       /\ HandsOff => tasks'[Len(tasks')].api_url = sink.api_url.v
       /\ \A i \in DOMAIN tasks' :
             tasks'[i].request.some
             => tasks'[i].request.v.url = tasks'[i].api_url
       /\ (IsSink(sink) /\ IsSink(sink') /\ sink.api_url = Some(PriorityUrl(built.v)))
          => \/ sink'.api_url = sink.api_url
             \/ last' = [op |-> "set_api_url", result |-> "returned"]]_vars

\* Built without argument while the variable was set: a request has gone to
\* the variable's URL, although the variable has been removed since.
C12_Witness ==
    /\ built = Some([api_url |-> None, env |-> Some(EnvUrl)])
    /\ env = None
    /\ \E i \in DOMAIN tasks :
          tasks[i].request.some /\ tasks[i].request.v.url = EnvUrl

\* C16 as stated: once constructed the sink's URL never changes, and it is
\* the URL each hand-off uses.
C16_UrlImmutable ==
    [][/\ (IsSink(sink) /\ IsSink(sink')) => sink'.api_url = sink.api_url
       /\ (IsSink(sink) /\ HandsOff)
          => tasks'[Len(tasks')].api_url = PriorityUrl(built.v)]_vars

\* C16 amended: the sink's URL changes only by set_api_url, which replaces
\* it with its argument; a change of the environment variable, set_client,
\* log, custom_log and the completion of a task leave it alone; each hand-off
\* uses the URL the sink holds at the call.
C16_UrlChangesOnlyBySetApiUrl ==
    [][/\ (IsSink(sink) /\ IsSink(sink') /\ sink'.api_url # sink.api_url)
          => /\ last' = [op |-> "set_api_url", result |-> "returned"]
             /\ sink' = set_api_url(sink, sink'.api_url.v)
       /\ env' # env => sink' = sink
       /\ (IsSink(sink) /\ HandsOff)
          => tasks'[Len(tasks')].api_url = sink.api_url.v]_vars

\* After set_client and a change of the variable the sink still holds the
\* resolved URL and a hand-off has used it.
C16_Witness ==
    /\ IsSink(sink)
    /\ sink.client = Some("client2")
    /\ built.v.env # env
    /\ sink.api_url = Some(PriorityUrl(built.v))
    /\ \E i \in DOMAIN tasks :
          tasks[i].client = Some("client2") /\ tasks[i].api_url = PriorityUrl(built.v)

\* C17: a task keeps the envelope, auth config, URL and client it was handed:
\* no step changes them, the hand-off takes them from the sink as it is at
\* the call, the request sent is built from them alone, and a step that
\* completes one task leaves every other task as it was.
C17_TaskOwnsCapture ==
    [][/\ \A i \in DOMAIN tasks :
             /\ tasks'[i].body = tasks[i].body
             /\ tasks'[i].api_url = tasks[i].api_url
             /\ tasks'[i].auth_config = tasks[i].auth_config
             /\ tasks'[i].client = tasks[i].client
             /\ tasks'[i].request.some
                => /\ tasks'[i].request.v.url = tasks[i].api_url
                   /\ tasks'[i].request.v.body = tasks[i].body
                   /\ tasks'[i].request.v.headers
                         = RequestOf(tasks[i]).headers
             /\ tasks'[i] # tasks[i]
                => \A j \in DOMAIN tasks : j # i => tasks'[j] = tasks[j]
       /\ HandsOff
          => /\ tasks'[Len(tasks')].api_url = sink.api_url.v
             /\ tasks'[Len(tasks')].auth_config = sink.auth_config
             /\ tasks'[Len(tasks')].client = sink.client]_vars

\* The first task was handed off before set_api_url and set_client, the
\* second after them; the second was sent first, then the sink was dropped,
\* then the first was sent: each request went to its own captured URL.
C17_Witness ==
    /\ sink = Dropped
    /\ Len(tasks) = 2
    /\ arrived = <<2, 1>>
    /\ tasks[1].client = Some("client") /\ tasks[2].client = Some("client2")
    /\ tasks[1].request.some /\ tasks[2].request.some
    /\ tasks[1].request.v.url # OtherUrl
    /\ tasks[2].request.v.url = OtherUrl

\* C13: at every level, Debug and Trace included, a custom_log call made
\* inside a runtime returns after handing off exactly one task for its event,
\* and that task makes one POST at most.
C13_CustomShipsAtEveryLevel ==
    [][/\ \A level \in Levels :
             CustomLog(level, Str("failed"), Str("auth_error"), DataCode, TagsEnv, TRUE)
             => /\ last' = [op |-> "custom_log", result |-> "returned"]
                /\ HandsOff
                /\ SubSeq(tasks', 1, Len(tasks)) = tasks
                /\ tasks'[Len(tasks')].kind = "custom_log"
                /\ tasks'[Len(tasks')].src.level = level
                /\ tasks'[Len(tasks')].st = "spawned"
       /\ \A i \in DOMAIN tasks' :
             tasks'[i].kind = "custom_log" => tasks'[i].attempts <= 1]_vars

\* A Trace event and a Debug event have both been POSTed.
C13_Witness ==
    /\ Len(tasks) = 2
    /\ tasks[1].kind = "custom_log" /\ tasks[2].kind = "custom_log"
    /\ tasks[1].src.level = "Trace" /\ tasks[2].src.level = "Debug"
    /\ tasks[1].request.some /\ tasks[2].request.some
    /\ tasks[1].attempts = 1 /\ tasks[2].attempts = 1

\* C14: for every enabled level and every (msg, log_type, data, tags), the
\* envelope that log hands off for the message of structured_log! is the
\* envelope custom_log builds on the same sink for the same arguments.
C14_StructuredEqualsCustom ==
    (last.op = "structured_log" /\ enabled(sink, last.args.level))
    => /\ Len(tasks) = 1
       /\ tasks[1].kind = "log"
       /\ tasks[1].body = CustomEnvelope(sink, last.args.level, last.args.msg,
                                         last.args.log_type, last.args.data,
                                         last.args.tags)

\* A structured record whose msg holds quotes, with a data object that
\* carries the names of base fields, was handed off at Warn.
C14_Witness ==
    /\ last.op = "structured_log"
    /\ last.args = [level |-> "Warn", msg |-> MsgSeverity, log_type |-> Str("service"),
                    data |-> DataService, tags |-> TagsService]
    /\ Len(tasks) = 1
    /\ tasks[1].body.o[Str("log")] = JStr(MsgSeverity)
    /\ tasks[1].body.o[Str("severity")] = JStr(Str("warn"))

\* C15: each structured_log! invocation hands the logger exactly one record,
\* at the level given, whose message is a JSON object with exactly the keys
\* log, type, data and tags, holding msg, log_type, data and tags.
C15_OneStructuredRecord ==
    [][last'.op = "structured_log"
       => /\ Len(messages') = Len(messages) + 1
          /\ SubSeq(messages', 1, Len(messages)) = messages
          /\ messages'[Len(messages')].level = last'.args.level
          /\ LET parsed == from_str(messages'[Len(messages')].message)
             IN /\ parsed.ok
                /\ parsed.v.t = "obj"
                /\ DOMAIN parsed.v.o
                     = {Str("log"), Str("type"), Str("data"), Str("tags")}
                /\ parsed.v.o[Str("log")] = JStr(last'.args.msg)
                /\ parsed.v.o[Str("type")] = JStr(last'.args.log_type)
                /\ parsed.v.o[Str("data")] = last'.args.data
                /\ parsed.v.o[Str("tags")] = last'.args.tags]_vars

\* A Debug record with a backslash and a quote in msg reached the logger.
C15_Witness ==
    /\ last.op = "structured_log"
    /\ last.args.level = "Debug"
    /\ last.args.msg = <<"a", BSLASH, QUOTE>>
    /\ Len(messages) = 1
    /\ from_str(messages[1].message).ok

\* C18 as stated: no state has the backend registered while the maximum
\* level is still the one from before init_logger (Off in a fresh process).
C18_AtomicWithRegistration ==
    ~(facade_logger = "LoggerFn" /\ max_level = "Off")

\* C18 amended: init_logger registers the backend first and sets the maximum
\* level in a later step of its own.  The registering step leaves the level
\* as it was; the level stays so until the caller's second step, which sets
\* it to the filter given; once init_logger has returned the level is a
\* filter given to it.
C18_LevelSetAfterRegistration ==
    [][/\ (facade_logger = "nop" /\ facade_logger' = "LoggerFn")
          => (max_level' = max_level /\ initPc'.pc = "set_max_level")
       /\ (initPc.pc = "set_max_level" /\ initPc' = initPc)
          => max_level' = max_level
       /\ (initPc.pc = "set_max_level" /\ initPc' # initPc)
          => /\ max_level' = initPc.filter
             /\ initPc'.pc = "idle"
             /\ last' = [op |-> "init_logger", result |-> "returned"]
       /\ (facade_logger = "LoggerFn" /\ initPc.pc = "idle")
          => max_level \in Filters]_vars

\* A facade call was made between the two steps of init_logger: the backend
\* was registered, the level still Off, and the record was dropped.
C18_Witness ==
    /\ facade_logger = "LoggerFn"
    /\ initPc.pc = "set_max_level"
    /\ max_level = "Off"
    /\ last = [op |-> "facade_log", result |-> "returned"]

\* C19: dispatches are not serialized: in every reachable state each task
\* that is still pending can complete next, with any of the three outcomes,
\* whatever the state and the outcome of the tasks handed off before or after
\* it.
C19_NotSerialized ==
    \A i \in DOMAIN tasks :
       tasks[i].st = "spawned"
       => \A outcome \in Outcomes : ENABLED TaskRunTo(i, outcome)

\* Two log calls made in sequence: the POST of the second reached the
\* endpoint first and succeeded, the POST of the first arrived later and got
\* an HTTP error.
C19_Witness ==
    /\ Len(tasks) = 2
    /\ tasks[1].kind = "log" /\ tasks[2].kind = "log"
    /\ arrived = <<2, 1>>
    /\ tasks[2].st = "ok"
    /\ tasks[1].st = "http_error"

IdentityKeys == {Str("service"), Str("environment")}

\* The keys that the record's own message names (log merges them, see C1).
NamedByMessage(task) ==
    IF task.kind = "log" /\ IsJsonObject(task.src.message)
    THEN DOMAIN from_str(task.src.message).v.o
    ELSE {}

\* C21 as stated: in every envelope handed off, service and environment are
\* those of the sink's own LoggerConfig.
C21_IdentityFromSink ==
    \A i \in DOMAIN tasks :
       \A k \in IdentityKeys :
          k \in DOMAIN tasks[i].body.o /\ tasks[i].body.o[k] = BaseValue(k, "Info")

\* C21 amended: service and environment of an envelope are those of the
\* sink's own LoggerConfig, also when the LoggerConfig inside the LogConfig
\* variant differs, unless the record's own JSON-object message names the
\* key, and then they are the message's; the envelope is the same whatever
\* LoggerConfig the variant embeds, and the auth headers the task will send
\* are made of the variant's two credentials alone.
C21_IdentityFromSinkUnlessNamed ==
    \A i \in DOMAIN tasks :
       /\ \A k \in IdentityKeys \ NamedByMessage(tasks[i]) :
             k \in DOMAIN tasks[i].body.o /\ tasks[i].body.o[k] = BaseValue(k, "Info")
       /\ \A k \in IdentityKeys \cap NamedByMessage(tasks[i]) :
             tasks[i].body.o[k] = from_str(tasks[i].src.message).v.o[k]
       /\ \A logger_config \in Identities :
             LET other == [sink EXCEPT !.auth_config.logger_config = logger_config]
                 src == tasks[i].src
             IN /\ tasks[i].body
                     = IF tasks[i].kind = "log"
                       THEN LogEnvelope(other, src.level, src.message)
                       ELSE CustomEnvelope(other, src.level, src.msg, src.log_type,
                                           src.data, src.tags)
                /\ AuthHeaders(tasks[i].auth_config) = AuthHeaders(other.auth_config)
       /\ tasks[i].auth_config = sink.auth_config

\* The sink's own LoggerConfig differs from the one inside its LogConfig, and
\* a record that names neither key was handed off with the sink's own values.
C21_Witness ==
    /\ sink.logger_config # sink.auth_config.logger_config
    /\ Len(tasks) = 1
    /\ tasks[1].kind = "log"
    /\ tasks[1].src.message = MsgUserId
    /\ tasks[1].body.o[Str("service")] = JStr(Str("test_service"))
    /\ tasks[1].body.o[Str("environment")] = JStr(Str("test_env"))

====
